---- MODULE Spec2Model ----
(***************************************************************************)
(* A model of ApkRepkg (src/apk_repackager.py): the archive assembly of    *)
(* zip_build (the os.walk filter, the entry names, the compression modes), *)
(* the orchestration of the external tools by build, zip_build, sign,      *)
(* repack, repack_zip, aar_to_dex and jar_to_dex, and the exit status of   *)
(* the command-line entry point main.                                      *)
(*                                                                         *)
(* Paths are strings, as in the code; a file of the tree is identified by  *)
(* the sequence of its components below the root.  External tools and the  *)
(* operating system are the environment: every outcome they can produce    *)
(* (not found, exit status, the order of a directory listing, an I/O       *)
(* error) is a nondeterministic choice.                                    *)
(***************************************************************************)
EXTENDS Integers, Sequences, FiniteSets, TLC

VARIABLES
  sep,           \* os.sep of the host: "/" or "\\"
  root_kind,     \* what input_dir is: "dir", "file" or "missing"
  tree,          \* files below input_dir: component path |-> content tag
  unlistable,    \* directories whose scandir() raises OSError
  unreadable,    \* files whose open() for reading raises OSError
  out,           \* the file at output_apk
  op,            \* the public method running (or last run)
  pc,            \* where that method stands
  align,         \* zip_build's align argument
  ret,           \* how the method ended
  files_to_add,  \* _zip_build_with_7z: the list built by its os.walk
  zip_entries,   \* _zip_build_with_python: the entries written by zf.write
  calls,         \* the external steps of this call, in order
  pre,           \* the tree and the output file when the call began
  prev,          \* history: what the previous call's assembly produced
  cli,           \* whether main made the call (or the method was called directly)
  exit_code,     \* what main returned; -1 while it has not
  v1_only,       \* sign's argument
  v2_only,       \* sign's argument
  SIGN_MODE,     \* config.SIGN_MODE as sign read it; "<unset>" when absent
  v1_enabled,    \* --v1-signing-enabled of apksigner_cmd; "none" before it is built
  v2_enabled     \* --v2-signing-enabled of apksigner_cmd

sign_vars == <<v1_only, v2_only, SIGN_MODE, v1_enabled, v2_enabled>>

vars == <<sep, root_kind, tree, unlistable, unreadable, out, op, pc, align,
          ret, files_to_add, zip_entries, calls, pre, prev, cli, exit_code,
          sign_vars>>

(***************************************************************************)
(* Bounds of the model.                                                    *)
(***************************************************************************)
MaxFiles == 2

(***************************************************************************)
(* Program constants.                                                      *)
(***************************************************************************)
ZIP_COMPRESS_LEVEL == 9

ZIPALIGN_ENABLED == TRUE

store_extensions ==
  {".dex", ".so", ".png", ".jpg", ".jpeg", ".gif", ".webp",
   ".mp3", ".mp4", ".ogg", ".arsc"}

store_filenames == {"resources.arsc", "AndroidManifest.xml"}

temp_list_name == "_7z_file_list.txt"

(***************************************************************************)
(* Strings: str.startswith, str.replace, str.lower, str.rfind.             *)
(***************************************************************************)
Chr(s, i) == SubSeq(s, i, i)

startswith(s, p) == Len(s) >= Len(p) /\ SubSeq(s, 1, Len(p)) = p

RECURSIVE replace(_, _, _)
replace(s, old, new) ==
  IF s = "" THEN ""
  ELSE (IF Chr(s, 1) = old THEN new ELSE Chr(s, 1))
         \o replace(SubSeq(s, 2, Len(s)), old, new)

UpperCase == "ABCDEFGHIJKLMNOPQRSTUVWXYZ"

LowerCase == "abcdefghijklmnopqrstuvwxyz"

LowerChar(c) ==
  IF \E i \in 1..Len(UpperCase) : Chr(UpperCase, i) = c
  THEN Chr(LowerCase, CHOOSE i \in 1..Len(UpperCase) : Chr(UpperCase, i) = c)
  ELSE c

RECURSIVE lower(_)
lower(s) ==
  IF s = "" THEN "" ELSE LowerChar(Chr(s, 1)) \o lower(SubSeq(s, 2, Len(s)))

\* 1-based index of the last occurrence of character c in s, 0 when absent
\* (Python's rfind, which counts from 0 and answers -1).
rfind(s, c) ==
  LET hits == {i \in 1..Len(s) : Chr(s, i) = c}
  IN IF hits = {} THEN 0 ELSE CHOOSE i \in hits : \A j \in hits : j <= i

Contains(s, c) == rfind(s, c) # 0

Max2(a, b) == IF a >= b THEN a ELSE b

(***************************************************************************)
(* os.path of the host convention sp ("/" is posixpath, "\\" is ntpath).   *)
(***************************************************************************)
altsep(sp) == IF sp = "\\" THEN "/" ELSE ""

\* The last separator of p: ntpath looks for both "\\" and "/".
LastSep(p, sp) ==
  IF sp = "\\" THEN Max2(rfind(p, "\\"), rfind(p, "/")) ELSE rfind(p, "/")

\* os.path.splitext(p)[1]: from the last dot of the last component, unless
\* that component has only dots before it.
splitext_ext(p, sp) ==
  LET sepIndex == LastSep(p, sp)
      dotIndex == rfind(p, ".")
  IN IF dotIndex > sepIndex
        /\ \E k \in (sepIndex + 1)..(dotIndex - 1) : Chr(p, k) # "."
     THEN SubSeq(p, dotIndex, Len(p))
     ELSE ""

basename(p, sp) == SubSeq(p, LastSep(p, sp) + 1, Len(p))

\* os.path.join(a, b) for a non-empty a that does not end with a separator
\* and a relative b, which is all the walk passes.
join(a, b, sp) == a \o sp \o b

\* The components of p between separators, empty ones dropped.
RECURSIVE SplitFrom(_, _, _, _)
SplitFrom(p, sp, i, cur) ==
  IF i > Len(p) THEN (IF cur = "" THEN <<>> ELSE <<cur>>)
  ELSE IF Chr(p, i) = sp \/ (altsep(sp) # "" /\ Chr(p, i) = altsep(sp))
       THEN (IF cur = "" THEN <<>> ELSE <<cur>>) \o SplitFrom(p, sp, i + 1, "")
       ELSE SplitFrom(p, sp, i + 1, cur \o Chr(p, i))

Split(p, sp) == SplitFrom(p, sp, 1, "")

RECURSIVE JoinAll(_, _)
JoinAll(parts, sp) ==
  IF Len(parts) = 0 THEN ""
  ELSE IF Len(parts) = 1 THEN parts[1]
  ELSE parts[1] \o sp \o JoinAll(Tail(parts), sp)

\* ntpath compares the components ignoring case (normcase).
normcase(s, sp) == IF sp = "\\" THEN lower(s) ELSE s

RECURSIVE CommonLen(_, _, _)
CommonLen(a, b, sp) ==
  IF Len(a) = 0 \/ Len(b) = 0 \/ normcase(a[1], sp) # normcase(b[1], sp)
  THEN 0
  ELSE 1 + CommonLen(Tail(a), Tail(b), sp)

RECURSIVE Pardirs(_)
Pardirs(n) == IF n = 0 THEN <<>> ELSE <<"..">> \o Pardirs(n - 1)

\* os.path.relpath(path, start) for two absolute, normalised paths.
relpath(path, start, sp) ==
  LET start_list == Split(start, sp)
      path_list  == Split(path, sp)
      i          == CommonLen(start_list, path_list, sp)
      rel_list   == Pardirs(Len(start_list) - i)
                      \o SubSeq(path_list, i + 1, Len(path_list))
  IN IF Len(rel_list) = 0 THEN "." ELSE JoinAll(rel_list, sp)

(***************************************************************************)
(* The directory tree below input_dir.                                     *)
(***************************************************************************)
input_dir(sp) == IF sp = "\\" THEN "C:\\app" ELSE "/app"

manifest == <<"AndroidManifest.xml">>

temp_list_file == <<temp_list_name>>

Files(t) == DOMAIN t

\* The directories of tree t below the root, the root itself being <<>>.
Dirs(t) == UNION {{SubSeq(f, 1, k) : k \in 1..(Len(f) - 1)} : f \in Files(t)}

IsBelow(f, d) == Len(f) > Len(d) /\ SubSeq(f, 1, Len(d)) = d

\* os.scandir(d): the names of the files and of the directories of d.
FileNames(t, d) ==
  {f[Len(d) + 1] : f \in {g \in Files(t) : Len(g) = Len(d) + 1 /\ IsBelow(g, d)}}

DirNames(t, d) ==
  {e[Len(d) + 1] : e \in {g \in Dirs(t) : Len(g) = Len(d) + 1 /\ IsBelow(g, d)}}

\* Every order in which the operating system may list the set S.
RECURSIVE Listings(_)
Listings(S) ==
  IF S = {} THEN {<<>>}
  ELSE UNION {{<<x>> \o rest : rest \in Listings(S \ {x})} : x \in S}

(***************************************************************************)
(* The walk both archive paths share: os.walk(input_dir), pruning dirs in  *)
(* place and skipping files.                                               *)
(***************************************************************************)
\* A walk that prunes hidden directories and __MACOSX only.
keep_dir_without_meta_inf(d) == ~startswith(d, ".") /\ d # "__MACOSX"

\* dirs[:] = [d for d in dirs if not d.startswith('.') and d != '__MACOSX']
\* if 'META-INF' in dirs: dirs.remove('META-INF')
keep_dir(d) == ~startswith(d, ".") /\ d # "__MACOSX" /\ d # "META-INF"

\* if file.startswith('.'): continue
keep_file(file) == ~startswith(file, ".")

\* The (root, file) pairs the loop body reaches, in order, for every order
\* in which the directories can be listed.  src names the file of the tree.
\* A directory whose listing fails yields nothing: os.walk is called without
\* onerror, so the OSError is dropped.
RECURSIVE os_walk(_, _, _, _, _)
RECURSIVE walk_dirs(_, _, _, _, _, _)
os_walk(top, d, t, unl, sp) ==
  IF d \in unl THEN {<<>>}
  ELSE
    LET dirs  == {n \in DirNames(t, d) : keep_dir(n)}
        files == {n \in FileNames(t, d) : keep_file(n)}
        here(fs) == [i \in 1..Len(fs) |->
                       [root |-> top, file |-> fs[i], src |-> d \o <<fs[i]>>]]
    IN UNION {UNION {{here(fs) \o below : below \in walk_dirs(top, d, ds, t, unl, sp)}
                       : ds \in Listings(dirs)}
                : fs \in Listings(files)}

walk_dirs(top, d, ds, t, unl, sp) ==
  IF Len(ds) = 0 THEN {<<>>}
  ELSE {a \o b : a \in os_walk(join(top, ds[1], sp), d \o <<ds[1]>>, t, unl, sp),
                 b \in walk_dirs(top, d, Tail(ds), t, unl, sp)}

(***************************************************************************)
(* _zip_build_with_7z: the file list and the command.                      *)
(***************************************************************************)
\* arcname = os.path.relpath(file_path, input_dir).replace('\\', '/')
arcname_7z(file_path, sp) ==
  replace(relpath(file_path, input_dir(sp), sp), "\\", "/")

\* The test of line 144.  Both of its branches write the same line to the
\* list file, and the list file is not among 7z's arguments.
is_store_7z(file_path, sp) ==
  \/ lower(splitext_ext(file_path, sp)) \in store_extensions
  \/ basename(file_path, sp) \in {"resources.arsc", "AndroidManifest.xml"}

list_line(file_path, sp) ==
  IF is_store_7z(file_path, sp) THEN file_path ELSE file_path

\* What the command asks of 7z: one -mx level for every file it adds.
compress_7z(file_path, sp) ==
  IF ZIP_COMPRESS_LEVEL = 0 THEN "STORE" ELSE "DEFLATE"

entry_7z(v, sp) ==
  LET file_path == join(v.root, v.file, sp)
  IN [file_path |-> file_path,
      arcname   |-> arcname_7z(file_path, sp),
      line      |-> list_line(file_path, sp),
      compress  |-> compress_7z(file_path, sp),
      src       |-> v.src]

(***************************************************************************)
(* _zip_build_with_python: the entries handed to zf.write.                 *)
(***************************************************************************)
\* zipfile.ZipInfo: the name stored has os.sep rewritten to "/" when os.sep
\* is not "/".
zipinfo_filename(arcname, sp) ==
  IF sp # "/" /\ Contains(arcname, sp) THEN replace(arcname, sp, "/") ELSE arcname

compress_type(file, sp) ==
  LET ext      == lower(splitext_ext(file, sp))
      filename == basename(file, sp)
  IN IF ext \in store_extensions \/ filename \in store_filenames
     THEN "STORE" ELSE "DEFLATE"

entry_python(v, sp) ==
  LET file_path == join(v.root, v.file, sp)
      arcname   == relpath(file_path, input_dir(sp), sp)
  IN [file_path |-> file_path,
      arcname   |-> zipinfo_filename(arcname, sp),
      compress  |-> compress_type(v.file, sp),
      src       |-> v.src]

(***************************************************************************)
(* The states the program can start in.                                    *)
(***************************************************************************)
\* The files a tree is drawn from.  A name holding a backslash exists only
\* where the backslash is no separator.
CandidateFiles(sp) ==
  {manifest,
   <<"AndroidManifest.xml", "x">>,
   <<"classes.dex">>,
   <<"res", "a.PNG">>,
   <<"res", "b.xml">>,
   <<"res", ".keep">>,
   <<"META-INF", "CERT.SF">>,
   <<"lib", "META-INF", "c.so">>,
   <<".hidden", "file">>,
   <<"__MACOSX", "a.png">>,
   temp_list_file}
  \cup (IF sp = "/" THEN {<<"a\\b.txt">>} ELSE {})

\* No path is both a file and a directory.
WellFormed(F) == F \cap Dirs([f \in F |-> "orig"]) = {}

Trees(sp) ==
  {[f \in F |-> "orig"] :
     F \in {G \in SUBSET CandidateFiles(sp) : Cardinality(G) <= MaxFiles /\ WellFormed(G)}}

\* At most one I/O fault: a directory that cannot be listed (the root, <<>>,
\* included) or a file that cannot be read.
Faults(t) ==
  {[unlistable |-> {}, unreadable |-> {}]}
  \cup {[unlistable |-> {d}, unreadable |-> {}] : d \in Dirs(t) \cup {<<>>}}
  \cup {[unlistable |-> {}, unreadable |-> {f}] : f \in Files(t)}

\* No earlier call is remembered.
NoPrev == [known |-> FALSE]

\* No sign call is running: the shipped configuration, no command built.
NoSigning ==
  /\ v1_only = FALSE
  /\ v2_only = FALSE
  /\ SIGN_MODE = "V2_ONLY"
  /\ v1_enabled = "none"
  /\ v2_enabled = "none"

Init ==
  /\ sep \in {"/", "\\"}
  /\ root_kind \in {"dir", "file", "missing"}
  /\ tree \in (IF root_kind = "dir" THEN Trees(sep) ELSE {<<>>})
  /\ \E ft \in (IF root_kind = "dir" THEN Faults(tree)
                ELSE {[unlistable |-> {}, unreadable |-> {}]}) :
       /\ unlistable = ft.unlistable
       /\ unreadable = ft.unreadable
  /\ out \in {"absent", "stale"}
  /\ op = "none"
  /\ pc = "idle"
  /\ align = FALSE
  /\ ret = "none"
  /\ files_to_add = <<>>
  /\ zip_entries = <<>>
  /\ calls = <<>>
  /\ pre = [tree |-> tree, out |-> out]
  /\ prev = NoPrev
  /\ cli = FALSE
  /\ exit_code = -1
  /\ NoSigning

(***************************************************************************)
(* Helpers of the actions.                                                 *)
(***************************************************************************)

Event(tool, result) == [tool |-> tool, result |-> result]

\* A check of the directory alone, without the manifest.
PreconditionsHold_dir_only == root_kind = "dir"

\* os.path.isdir(input_dir) and os.path.isfile(manifest_path)
PreconditionsHold == root_kind = "dir" /\ manifest \in Files(tree)

\* The method raises: nothing else changes.
Raise(e) ==
  /\ ret' = e
  /\ pc' = "done"

\* zip_build has returned output_apk: repack_zip goes on to sign it.
AfterZipBuild ==
  IF op = "repack_zip" THEN pc' = "sign" /\ ret' = "none"
  ELSE pc' = "done" /\ ret' = "ok"

\* The archive is written: zipalign when asked for, then return.
AfterArchive ==
  IF align THEN pc' = "zipalign" /\ ret' = "none" ELSE AfterZipBuild

\* A call of a public method begins: nothing of an earlier call is left.
\* main is the entry point of the program and reaches every method with
\* every argument the model gives it, except sign, to which it passes
\* neither v1_only nor v2_only: sign is also called directly.
Begin(name) ==
  /\ pc = "idle"
  /\ op' = name
  /\ cli' \in (IF name = "sign" THEN BOOLEAN ELSE {TRUE})
  /\ UNCHANGED <<zip_entries, calls, pre, prev>>

\* open(temp_list_file, 'w') creates the file or truncates the one there.
WriteList(t) ==
  [f \in Files(t) \cup {temp_list_file} |->
     IF f = temp_list_file THEN "list" ELSE t[f]]

\* os.remove(temp_list_file)
RemoveFile(t, g) == [f \in Files(t) \ {g} |-> t[f]]

\* A zip_build that leaves the old output where it is.
remove_old_output_skipped(o) == o

\* if os.path.exists(output_apk): os.remove(output_apk)
remove_old_output(o) == "absent"

Min(S) == CHOOSE i \in S : \A j \in S : i <= j

\* An entry point that reports an exception other than ApkRepkgError as
\* success.
exit_status_other_exception_is_success(r) ==
  IF r = "ok" THEN 0
  ELSE IF r = "ApkRepkgError" THEN 1
  ELSE IF r = "KeyboardInterrupt" THEN 130
  ELSE 0

\* The return statements of main's try block and its except clauses.
exit_status(r) ==
  IF r = "ok" THEN 0
  ELSE IF r = "ApkRepkgError" THEN 1
  ELSE IF r = "KeyboardInterrupt" THEN 130
  ELSE 1

\* main returns as soon as the method it called has returned or raised.
MainReturns ==
  exit_code' = IF cli' /\ pc' = "done" THEN exit_status(ret') ELSE -1

(***************************************************************************)
(* zip_build and repack_zip.                                               *)
(***************************************************************************)
\* zip_build up to the launch of 7z: the precondition checks, the removal of
\* the old output, the walk of _zip_build_with_7z and the list file.
ZipBuildEnter(name, al) ==
  /\ Begin(name)
  /\ align' = al
  /\ IF ~PreconditionsHold
     THEN /\ Raise("ApkRepkgError")
          /\ UNCHANGED <<tree, out, files_to_add>>
     ELSE /\ out' = remove_old_output(out)
          /\ \E w \in os_walk(input_dir(sep), <<>>, tree, unlistable, sep) :
               files_to_add' = [i \in 1..Len(w) |-> entry_7z(w[i], sep)]
          /\ tree' = WriteList(tree)
          /\ pc' = "7z"
          /\ ret' = "none"
  /\ UNCHANGED <<sep, root_kind, unlistable, unreadable, sign_vars>>
  /\ MainReturns

ZipBuild == \E al \in BOOLEAN : ZipBuildEnter("zip_build", al)

\* align = align if align is not None else config.ZIPALIGN_ENABLED
RepackZip ==
  \E a \in {"None", "True", "False"} :
    ZipBuildEnter("repack_zip", IF a = "None" THEN ZIPALIGN_ENABLED ELSE a = "True")

\* A handler that falls back on every failure of 7z.
handle_7z_any_failure_falls_back(r) ==
  IF r = "ok" THEN "continue" ELSE "fallback"

\* What zip_build does with the way the 7z process ended: only
\* FileNotFoundError is caught, a nonzero exit raises ApkRepkgError.
handle_7z(r) ==
  IF r = "notfound" THEN "fallback"
  ELSE IF r # "ok" THEN "raise"
  ELSE "continue"

\* A failure of the 7z step that the caller does not see.
SevenZipFailed_swallowed == AfterZipBuild

\* The 7z step failed: ApkRepkgError leaves zip_build.
SevenZipFailed == Raise("ApkRepkgError")

\* subprocess.run(cmd, ...) of 7z, and the finally clause that removes the
\* list file.  A failed 7z may leave a partial archive behind.
Run7z ==
  /\ pc = "7z"
  /\ \E r \in {"notfound", "ok", "nonzero"} :
       /\ calls' = Append(calls, Event("7z", r))
       /\ CASE handle_7z(r) = "continue" -> out' = "built" /\ AfterArchive
            [] handle_7z(r) = "raise" ->
                 out' \in {"absent", "partial"} /\ SevenZipFailed
            [] handle_7z(r) = "fallback" ->
                 out' = out /\ pc' = "python" /\ ret' = "none"
  /\ tree' = IF temp_list_file \in Files(tree)
             THEN RemoveFile(tree, temp_list_file) ELSE tree
  /\ UNCHANGED <<sep, root_kind, unlistable, unreadable, op, align,
                 files_to_add, zip_entries, pre, prev, cli, sign_vars>>
  /\ MainReturns

\* _zip_build_with_python: zf.write of every file the walk reaches; a file
\* that cannot be read raises out of the loop, the archive closed as it is.
ZipBuildWithPython ==
  /\ pc = "python"
  /\ \E w \in os_walk(input_dir(sep), <<>>, tree, unlistable, sep) :
       LET bad == {i \in 1..Len(w) : w[i].src \in unreadable}
           n   == IF bad = {} THEN Len(w) ELSE Min(bad) - 1
       IN /\ zip_entries' = [i \in 1..n |-> entry_python(w[i], sep)]
          /\ IF bad = {}
             THEN /\ calls' = Append(calls, Event("zipfile", "ok"))
                  /\ out' = "built"
                  /\ AfterArchive
             ELSE /\ calls' = Append(calls, Event("zipfile", "oserror"))
                  /\ out' = "partial"
                  /\ Raise("OSError")
  /\ UNCHANGED <<sep, root_kind, tree, unlistable, unreadable, op, align,
                 files_to_add, pre, prev, cli, sign_vars>>
  /\ MainReturns

\* A _zipalign that moves the temporary file over apk_path whatever happened.
aligned_file_always_moved(r, o) == "aligned"

\* shutil.move(temp_apk, apk_path), reached only when zipalign exited 0.
aligned_file(r, o) == IF r = "ok" THEN "aligned" ELSE o

\* _zipalign: skipped when zipalign_path is no file; every failure is caught
\* and printed; the aligned file replaces apk_path only after exit status 0.
\* ("error": subprocess.run or shutil.move raised something other than
\* FileNotFoundError; the except clause removes the temporary file.)
Zipalign ==
  /\ pc = "zipalign"
  /\ \E r \in {"unavailable", "notfound", "nonzero", "ok", "error"} :
       /\ calls' = IF r = "unavailable" THEN calls
                   ELSE Append(calls, Event("zipalign", r))
       /\ out' = aligned_file(r, out)
  /\ AfterZipBuild
  /\ UNCHANGED <<sep, root_kind, tree, unlistable, unreadable, op, align,
                 files_to_add, zip_entries, pre, prev, cli, sign_vars>>
  /\ MainReturns

(***************************************************************************)
(* build, sign and repack.                                                 *)
(***************************************************************************)
\* build up to the launch of apktool.
BuildEnter(name) ==
  /\ Begin(name)
  /\ IF ~PreconditionsHold THEN Raise("ApkRepkgError")
     ELSE pc' = "apktool" /\ ret' = "none"
  /\ UNCHANGED <<sep, root_kind, tree, unlistable, unreadable, out, align,
                 files_to_add, sign_vars>>
  /\ MainReturns

Build == BuildEnter("build")

Repack == BuildEnter("repack")

\* subprocess.run(cmd) of apktool: a missing executable raises
\* FileNotFoundError, which build does not catch.
RunApktool ==
  /\ pc = "apktool"
  /\ \E r \in {"notfound", "ok", "nonzero"} :
       /\ calls' = Append(calls, Event("apktool", r))
       /\ CASE r = "ok" ->
                 /\ out' = "built"
                 /\ IF op = "repack" THEN pc' = "sign" /\ ret' = "none"
                    ELSE pc' = "done" /\ ret' = "ok"
            [] r = "nonzero" -> out' = out /\ Raise("ApkRepkgError")
            [] r = "notfound" -> out' = out /\ Raise("FileNotFoundError")
  /\ UNCHANGED <<sep, root_kind, tree, unlistable, unreadable, op, align,
                 files_to_add, zip_entries, pre, prev, cli, sign_vars>>
  /\ MainReturns

\* The values config.SIGN_MODE can have when sign reads it: the three the
\* configuration file names, another string, or no such attribute.
SignModes == {"V1_ONLY", "V2_ONLY", "V1_V2", "v2_only", "<unset>"}

\* sign_mode = getattr(config, 'SIGN_MODE', 'V1_V2')
getattr_SIGN_MODE(cfg) == IF cfg = "<unset>" THEN "V1_V2" ELSE cfg

\* A choice of the flags in which the configuration comes before v2_only.
signing_flags_config_first(v1, v2, sign_mode) ==
  IF v1 THEN [v1_enabled |-> "true", v2_enabled |-> "false"]
  ELSE IF sign_mode = "V1_ONLY" THEN [v1_enabled |-> "true", v2_enabled |-> "false"]
  ELSE IF v2 THEN [v1_enabled |-> "false", v2_enabled |-> "true"]
  ELSE IF sign_mode = "V2_ONLY" THEN [v1_enabled |-> "false", v2_enabled |-> "true"]
  ELSE [v1_enabled |-> "true", v2_enabled |-> "true"]

\* The if / elif chain of sign that sets v1_enabled and v2_enabled.
signing_flags(v1, v2, sign_mode) ==
  IF v1 THEN [v1_enabled |-> "true", v2_enabled |-> "false"]
  ELSE IF v2 THEN [v1_enabled |-> "false", v2_enabled |-> "true"]
  ELSE IF sign_mode = "V1_ONLY" THEN [v1_enabled |-> "true", v2_enabled |-> "false"]
  ELSE IF sign_mode = "V2_ONLY" THEN [v1_enabled |-> "false", v2_enabled |-> "true"]
  ELSE [v1_enabled |-> "true", v2_enabled |-> "true"]

\* sign up to the launch of apksigner: apk_path and keystore_path must be
\* files (ks: whether the keystore is one); then the configuration is read
\* and apksigner_cmd is built from the flags.
SignCheck(ks, v1, v2) ==
  /\ v1_only' = v1
  /\ v2_only' = v2
  /\ IF out = "absent" \/ ~ks
     THEN /\ Raise("ApkRepkgError")
          /\ UNCHANGED <<SIGN_MODE, v1_enabled, v2_enabled>>
     ELSE /\ pc' = "apksigner"
          /\ ret' = "none"
          /\ \E cfg \in SignModes :
               LET flags == signing_flags(v1, v2, getattr_SIGN_MODE(cfg))
               IN /\ SIGN_MODE' = cfg
                  /\ v1_enabled' = flags.v1_enabled
                  /\ v2_enabled' = flags.v2_enabled

\* sign called directly, with any v1_only and v2_only; main passes neither.
Sign ==
  /\ Begin("sign")
  /\ \E ks \in BOOLEAN, v1 \in BOOLEAN, v2 \in BOOLEAN :
       /\ cli' => (~v1 /\ ~v2)
       /\ SignCheck(ks, v1, v2)
  /\ UNCHANGED <<sep, root_kind, tree, unlistable, unreadable, out, align,
                 files_to_add>>
  /\ MainReturns

\* repack and repack_zip: self.sign(built_apk, keystore_path, storepass,
\* alias) once the build returned; v1_only and v2_only keep their defaults.
SignBuilt ==
  /\ pc = "sign"
  /\ \E ks \in BOOLEAN : SignCheck(ks, FALSE, FALSE)
  /\ UNCHANGED <<sep, root_kind, tree, unlistable, unreadable, out, op, align,
                 files_to_add, zip_entries, calls, pre, prev, cli>>
  /\ MainReturns

\* What sign does with the way apksigner ended.
handle_apksigner(r) ==
  IF r = "notfound" THEN "fallback"
  ELSE IF r # "ok" THEN "raise"
  ELSE "continue"

RunApksigner ==
  /\ pc = "apksigner"
  /\ \E r \in {"notfound", "ok", "nonzero"} :
       /\ calls' = Append(calls, Event("apksigner", r))
       /\ CASE handle_apksigner(r) = "continue" ->
                 out' = "signed" /\ pc' = "done" /\ ret' = "ok"
            [] handle_apksigner(r) = "raise" ->
                 out' = out /\ Raise("ApkRepkgError")
            [] handle_apksigner(r) = "fallback" ->
                 out' = out /\ pc' = "jarsigner" /\ ret' = "none"
  /\ UNCHANGED <<sep, root_kind, tree, unlistable, unreadable, op, align,
                 files_to_add, zip_entries, pre, prev, cli, sign_vars>>
  /\ MainReturns

\* The jarsigner fallback: its FileNotFoundError is not caught, its nonzero
\* exit raises ApkRepkgError at line 537.
RunJarsigner ==
  /\ pc = "jarsigner"
  /\ \E r \in {"notfound", "ok", "nonzero"} :
       /\ calls' = Append(calls, Event("jarsigner", r))
       /\ CASE r = "ok" -> out' = "signed" /\ pc' = "done" /\ ret' = "ok"
            [] r = "nonzero" -> out' = out /\ Raise("ApkRepkgError")
            [] r = "notfound" -> out' = out /\ Raise("FileNotFoundError")
  /\ UNCHANGED <<sep, root_kind, tree, unlistable, unreadable, op, align,
                 files_to_add, zip_entries, pre, prev, cli, sign_vars>>
  /\ MainReturns

(***************************************************************************)
(* aar_to_dex and jar_to_dex: the input checks, then d8.                   *)
(***************************************************************************)
\* Up to the launch of d8 (input_ok: the input is a file with the right
\* extension and, for an AAR, holds classes.jar).
DexEnter(name) ==
  /\ Begin(name)
  /\ \E input_ok \in BOOLEAN :
       IF ~input_ok THEN Raise("ApkRepkgError")
       ELSE pc' = "d8" /\ ret' = "none"
  /\ UNCHANGED <<sep, root_kind, tree, unlistable, unreadable, out, align,
                 files_to_add, sign_vars>>
  /\ MainReturns

AarToDex == DexEnter("aar_to_dex")

JarToDex == DexEnter("jar_to_dex")

\* subprocess.run(d8_cmd): a nonzero exit raises ApkRepkgError, and so does
\* an exit 0 that left no .dex file (dex: whether there is one).
RunD8 ==
  /\ pc = "d8"
  /\ \E r \in {"notfound", "ok", "nonzero"}, dex \in BOOLEAN :
       /\ calls' = Append(calls, Event("d8", r))
       /\ CASE r = "ok" /\ dex -> pc' = "done" /\ ret' = "ok"
            [] r = "ok" /\ ~dex -> Raise("ApkRepkgError")
            [] r = "nonzero" -> Raise("ApkRepkgError")
            [] r = "notfound" -> Raise("FileNotFoundError")
  /\ UNCHANGED <<sep, root_kind, tree, unlistable, unreadable, out, op, align,
                 files_to_add, zip_entries, pre, prev, cli, sign_vars>>
  /\ MainReturns

(***************************************************************************)
(* Ctrl-C while a tool runs, and main.                                     *)
(***************************************************************************)
Waiting == {"apktool", "7z", "python", "zipalign", "apksigner", "jarsigner", "d8"}

\* KeyboardInterrupt leaves the method: no except clause of the class
\* catches it.  The finally clause of _zip_build_with_7z still removes the
\* list file; an archive being written stays as far as it got.
Interrupt ==
  /\ pc \in Waiting
  /\ Raise("KeyboardInterrupt")
  /\ tree' = IF pc = "7z" /\ temp_list_file \in Files(tree)
             THEN RemoveFile(tree, temp_list_file) ELSE tree
  /\ out' \in (IF pc = "7z" THEN {out, "partial"}
               ELSE IF pc = "python" THEN {"partial"}
               ELSE {out})
  /\ UNCHANGED <<sep, root_kind, unlistable, unreadable, op, align,
                 files_to_add, zip_entries, calls, pre, prev, cli, sign_vars>>
  /\ MainReturns

\* if not args.command: parser.print_help(); return 1
MainNoCommand ==
  /\ pc = "idle"
  /\ op' = "main"
  /\ cli' = TRUE
  /\ pc' = "done"
  /\ ret' = "none"
  /\ exit_code' = 1
  /\ UNCHANGED <<sep, root_kind, tree, unlistable, unreadable, out, align,
                 files_to_add, zip_entries, calls, pre, prev, sign_vars>>

(***************************************************************************)
(* The method has returned or raised: its locals are gone, and the next    *)
(* call starts from the file system it left.  A file the call left at the  *)
(* output path is, for the next call, a file that was there before it.     *)
(***************************************************************************)
Forget ==
  /\ op' = "none"
  /\ pc' = "idle"
  /\ align' = FALSE
  /\ ret' = "none"
  /\ files_to_add' = <<>>
  /\ zip_entries' = <<>>
  /\ calls' = <<>>
  /\ out' = (IF out = "absent" THEN "absent" ELSE "stale")
  /\ pre' = [tree |-> tree, out |-> out']
  /\ cli' = FALSE
  /\ exit_code' = -1
  /\ v1_only' = FALSE
  /\ v2_only' = FALSE
  /\ SIGN_MODE' = "V2_ONLY"
  /\ v1_enabled' = "none"
  /\ v2_enabled' = "none"
  /\ UNCHANGED <<sep, root_kind, tree, unlistable, unreadable>>

Return ==
  /\ pc = "done"
  /\ Forget
  /\ prev' = NoPrev

\* The same, for comparing two calls in a row: what the call's assembly
\* produced, and the tree it walked, is remembered for the next call.
Names(list) == [i \in 1..Len(list) |-> list[i].arcname]

Ran(tool, result) == \E i \in 1..Len(calls) : calls[i] = Event(tool, result)

LastAssembly ==
  IF Ran("zipfile", "ok")
  THEN [known |-> TRUE, tree |-> tree, names |-> Names(zip_entries)]
  ELSE IF Ran("7z", "ok")
  THEN [known |-> TRUE, tree |-> pre.tree, names |-> Names(files_to_add)]
  ELSE NoPrev

ReturnRemember ==
  /\ pc = "done"
  /\ Forget
  /\ prev' = LastAssembly

\* A step of a method of ApkRepkg, called by main or directly.
Method ==
  \/ ZipBuild
  \/ RepackZip
  \/ Run7z
  \/ ZipBuildWithPython
  \/ Zipalign
  \/ Build
  \/ Repack
  \/ RunApktool
  \/ Sign
  \/ SignBuilt
  \/ RunApksigner
  \/ RunJarsigner
  \/ AarToDex
  \/ JarToDex
  \/ RunD8
  \/ Interrupt

Step == Method \/ MainNoCommand

Next == Return \/ Step

Spec == Init /\ [][Next]_vars

NextTwoRuns == ReturnRemember \/ Step

SpecTwoRuns == Init /\ [][NextTwoRuns]_vars

(***************************************************************************)
(* What the properties speak of.                                           *)
(***************************************************************************)
ZipOps == {"zip_build", "repack_zip"}

\* The call passed the precondition checks of lines 94-99.
PassedChecks == root_kind = "dir" /\ manifest \in Files(pre.tree)

\* The list of _zip_build_with_7z exists; the walk saw pre.tree.
HasList7z == op \in ZipOps /\ pc # "idle" /\ PassedChecks

\* The walk of _zip_build_with_python ran to its end; it saw tree.
HasListPython == op \in ZipOps /\ Ran("zipfile", "ok")

DirComponents(f) == {f[k] : k \in 1..(Len(f) - 1)}

Components(f) == {f[k] : k \in 1..Len(f)}

Hidden(f) == \E c \in Components(f) : startswith(c, ".")

UnderReserved(f) == "META-INF" \in DirComponents(f) \/ "__MACOSX" \in DirComponents(f)

Excluded(f) == Hidden(f) \/ UnderReserved(f)

\* f lies in a directory whose listing fails (the root is <<>>).
BelowUnlistable(f) == \E k \in 0..(Len(f) - 1) : SubSeq(f, 1, k) \in unlistable

Count(list, f) == Cardinality({i \in 1..Len(list) : list[i].src = f})

NoExcluded(list, t) ==
  \A i \in 1..Len(list) : list[i].src \in Files(t) /\ ~Excluded(list[i].src)

(***************************************************************************)
(* C1.  build and zip_build: when input_dir is no directory, or has no     *)
(* regular file AndroidManifest.xml directly inside it, the call raises    *)
(* ApkRepkgError and has had no effect: no external tool was invoked, and  *)
(* the file at the output path and the tree are as they were.              *)
(***************************************************************************)
C1_PreconditionFailureHasNoEffect ==
  (op \in {"build", "zip_build"} /\ ~PassedChecks) =>
     /\ pc = "done"
     /\ ret = "ApkRepkgError"
     /\ calls = <<>>
     /\ out = pre.out
     /\ tree = pre.tree

\* zip_build has failed on a root whose AndroidManifest.xml is missing (or a
\* directory), and the stale output file is still there.
C1_Witness ==
  /\ op = "zip_build"
  /\ pc = "done"
  /\ root_kind = "dir"
  /\ manifest \notin Files(pre.tree)
  /\ pre.out = "stale"
  /\ out = "stale"
  /\ ret = "ApkRepkgError"

(***************************************************************************)
(* C2, as written.  Both entry lists (the 7z file list and the zipfile     *)
(* walk) hold no file with a '.'-prefixed component and no file under a    *)
(* directory META-INF or __MACOSX, and every other regular file under the  *)
(* root exactly once.                                                      *)
(***************************************************************************)
EveryOtherOnce(list, t) ==
  \A f \in Files(t) : ~Excluded(f) => Count(list, f) = 1

EveryReachableOnce(list, t) ==
  \A f \in Files(t) :
     Count(list, f) = (IF ~Excluded(f) /\ ~BelowUnlistable(f) THEN 1 ELSE 0)

LastName(f) == f[Len(f)]

MustStore(f) ==
  \/ lower(splitext_ext(LastName(f), "/")) \in
       {".dex", ".so", ".png", ".jpg", ".jpeg", ".gif", ".webp", ".mp3",
        ".mp4", ".ogg", ".arsc"}
  \/ LastName(f) \in {"resources.arsc", "AndroidManifest.xml"}

StoreIffMustStore(list) ==
  \A i \in 1..Len(list) :
     list[i].compress = (IF MustStore(list[i].src) THEN "STORE" ELSE "DEFLATE")

C3_StoreIffStoreExtension ==
  /\ (op \in ZipOps /\ Ran("7z", "ok")) => StoreIffMustStore(files_to_add)
  /\ (op \in ZipOps /\ Ran("zipfile", "ok")) => StoreIffMustStore(zip_entries)

(***************************************************************************)
(* C4.  On both archive paths no entry name holds a backslash, whichever   *)
(* separator the host uses, and the name of a file that can exist under    *)
(* both conventions is its components below the root joined by '/', so     *)
(* that both conventions give the same names.                              *)
(***************************************************************************)
Portable(f) == \A c \in Components(f) : ~Contains(c, "\\") /\ ~Contains(c, "/")

SlashNames(list) ==
  \A i \in 1..Len(list) :
     /\ ~Contains(list[i].arcname, "\\")
     /\ Portable(list[i].src) => list[i].arcname = JoinAll(list[i].src, "/")

C4_EntryNamesUseSlashOnly ==
  /\ HasList7z => SlashNames(files_to_add)
  /\ HasListPython => SlashNames(zip_entries)

(***************************************************************************)
(* C5.  Two assembly runs over the same unchanged tree produce the same    *)
(* ordered entry sequence, sorted lexicographically by relative path,      *)
(* whatever the order in which the directories are listed.                 *)
(***************************************************************************)
CodePoints ==
  "-./0123456789ABCDEFGHIJKLMNOPQRSTUVWXYZ\\_abcdefghijklmnopqrstuvwxyz"

CodePoint(c) == CHOOSE i \in 1..Len(CodePoints) : Chr(CodePoints, i) = c

RECURSIVE StrLeq(_, _)
StrLeq(a, b) ==
  IF a = "" THEN TRUE
  ELSE IF b = "" THEN FALSE
  ELSE IF Chr(a, 1) = Chr(b, 1)
       THEN StrLeq(SubSeq(a, 2, Len(a)), SubSeq(b, 2, Len(b)))
       ELSE CodePoint(Chr(a, 1)) < CodePoint(Chr(b, 1))

SortedNames(names) ==
  \A i \in 1..(Len(names) - 1) : StrLeq(names[i], names[i + 1])

C5_TwoRunsSameSortedSequence ==
  (pc = "done" /\ LastAssembly.known /\ prev.known /\ prev.tree = LastAssembly.tree) =>
     /\ LastAssembly.names = prev.names
     /\ SortedNames(LastAssembly.names)

(***************************************************************************)
(* C6.  zip_build leaves the input tree as it found it, in every outcome:  *)
(* the files under the root and their contents after the call are those    *)
(* before it, a _7z_file_list.txt that was already there included.  (The   *)
(* output path of the model lies outside the root.)                        *)
(***************************************************************************)
C6_InputTreeUnchanged ==
  (op \in ZipOps /\ pc = "done") => tree = pre.tree

(***************************************************************************)
(* C7.  zip_build never returns success for a traversal that produced no   *)
(* entry: when it returns normally, the entry list is not empty.           *)
(***************************************************************************)
FinalList == IF Ran("zipfile", "ok") THEN zip_entries ELSE files_to_add

C7_NoSuccessWithZeroEntries ==
  (op = "zip_build" /\ pc = "done" /\ ret = "ok") => Len(FinalList) > 0

(***************************************************************************)
(* C8.  When one file or directory under the root cannot be read during    *)
(* the assembly, the entry is skipped and the traversal goes on: the       *)
(* operation does not abort, and every other file that is not excluded is  *)
(* emitted.                                                                *)
(***************************************************************************)
C8_UnreadableEntrySkipped ==
  (op \in ZipOps /\ pc = "done" /\ \E i \in 1..Len(calls) : calls[i].tool = "zipfile") =>
     /\ ret # "OSError"
     /\ \A f \in Files(tree) :
          (~Excluded(f) /\ ~BelowUnlistable(f) /\ f \notin unreadable)
             => Count(zip_entries, f) = 1

(***************************************************************************)
(* C9.  The secondary tool runs only when the primary executable was not   *)
(* found: the zipfile path only after 7z raised 'not found', jarsigner     *)
(* only after apksigner raised 'not found'.  When the primary tool ran and *)
(* exited nonzero the call fails with ApkRepkgError and the secondary tool *)
(* is never invoked.                                                       *)
(***************************************************************************)
Only_after(tool, primary) ==
  \A i \in 1..Len(calls) :
     calls[i].tool = tool => (i > 1 /\ calls[i - 1] = Event(primary, "notfound"))

Nonzero_is_final(primary, secondary) ==
  \A i \in 1..Len(calls) :
     calls[i] = Event(primary, "nonzero") =>
        /\ i = Len(calls)
        /\ pc = "done"
        /\ ret = "ApkRepkgError"
        /\ \A j \in 1..Len(calls) : calls[j].tool # secondary

C9_SecondaryOnlyWhenPrimaryNotFound ==
  /\ Only_after("zipfile", "7z")
  /\ Only_after("jarsigner", "apksigner")
  /\ pc = "python" => (Len(calls) > 0 /\ calls[Len(calls)] = Event("7z", "notfound"))
  /\ pc = "jarsigner" =>
       (Len(calls) > 0 /\ calls[Len(calls)] = Event("apksigner", "notfound"))
  /\ Nonzero_is_final("7z", "zipfile")
  /\ Nonzero_is_final("apksigner", "jarsigner")

\* 7z ran and exited nonzero: zip_build has raised ApkRepkgError.
C9_Witness ==
  /\ op = "zip_build"
  /\ pc = "done"
  /\ calls = <<Event("7z", "nonzero")>>
  /\ ret = "ApkRepkgError"

(***************************************************************************)
(* C10.  In repack and repack_zip the external steps happen in the order   *)
(* archive, zipalign (when asked for), sign: a signer runs at most once,   *)
(* only after the archive step has succeeded and after any zipalign step,  *)
(* and never when the build step failed.                                   *)
(***************************************************************************)
Signers == {"apksigner", "jarsigner"}

IsSignerRun(e) == e.tool \in Signers /\ e.result # "notfound"

IsArchived(e) ==
  e \in {Event("7z", "ok"), Event("zipfile", "ok"), Event("apktool", "ok")}

IsBuildFailure(e) ==
  \/ e.tool \in {"7z", "apktool", "zipfile"} /\ e.result \notin {"ok", "notfound"}
  \/ e = Event("apktool", "notfound")

C10_ArchiveThenAlignThenSign ==
  op \in {"repack", "repack_zip"} =>
     /\ Cardinality({i \in 1..Len(calls) : IsSignerRun(calls[i])}) <= 1
     /\ \A i \in 1..Len(calls) :
          calls[i].tool \in Signers =>
             /\ \E j \in 1..(i - 1) : IsArchived(calls[j])
             /\ \A k \in 1..Len(calls) : calls[k].tool = "zipalign" => k < i
     /\ pc \in {"sign", "apksigner", "jarsigner"} =>
          \E j \in 1..Len(calls) : IsArchived(calls[j])
     /\ (~PassedChecks \/ \E j \in 1..Len(calls) : IsBuildFailure(calls[j])) =>
          /\ \A i \in 1..Len(calls) : calls[i].tool \notin Signers
          /\ pc \notin {"sign", "apksigner", "jarsigner"}

\* repack_zip has archived with 7z, aligned and signed with apksigner.
C10_Witness ==
  /\ op = "repack_zip"
  /\ pc = "done"
  /\ calls = <<Event("7z", "ok"), Event("zipalign", "ok"), Event("apksigner", "ok")>>
  /\ ret = "ok"

(***************************************************************************)
(* C11.  The flags sign passes to apksigner follow a fixed precedence:     *)
(* v1_only gives (true, false) whatever v2_only and the configuration say; *)
(* otherwise v2_only gives (false, true); otherwise SIGN_MODE V1_ONLY      *)
(* gives (true, false), V2_ONLY gives (false, true), and any other or      *)
(* missing value gives (true, true).  At least one scheme is always        *)
(* enabled, and apksigner is never launched before the flags are set.      *)
(***************************************************************************)
FlagsAre(a, b) == v1_enabled = a /\ v2_enabled = b

C11_SigningFlagsPrecedence ==
  /\ (pc = "apksigner" \/ \E i \in 1..Len(calls) : calls[i].tool = "apksigner")
        => v1_enabled # "none"
  /\ v1_enabled # "none" =>
       /\ v1_only => FlagsAre("true", "false")
       /\ (~v1_only /\ v2_only) => FlagsAre("false", "true")
       /\ (~v1_only /\ ~v2_only /\ SIGN_MODE = "V1_ONLY") => FlagsAre("true", "false")
       /\ (~v1_only /\ ~v2_only /\ SIGN_MODE = "V2_ONLY") => FlagsAre("false", "true")
       /\ (~v1_only /\ ~v2_only /\ SIGN_MODE \notin {"V1_ONLY", "V2_ONLY"})
             => FlagsAre("true", "true")
       /\ (v1_enabled = "true" \/ v2_enabled = "true")

\* sign was called with v2_only while the configuration says V1_ONLY, and
\* apksigner has run with V2 alone.
C11_Witness ==
  /\ op = "sign"
  /\ Ran("apksigner", "ok")
  /\ ~v1_only
  /\ v2_only
  /\ SIGN_MODE = "V1_ONLY"
  /\ FlagsAre("false", "true")

(***************************************************************************)
(* C12.  A failure of the alignment is never fatal and never damages the   *)
(* archive: when zipalign is missing, exits nonzero or throws, _zipalign   *)
(* does not raise, the file at apk_path is the one from before the call,   *)
(* and zip_build returns success; the file is replaced by the aligned one  *)
(* only when zipalign exited 0.                                            *)
(***************************************************************************)
ZipalignExitedZero == calls' = Append(calls, Event("zipalign", "ok"))

C12_ZipalignFailureNotFatal ==
  [][(pc = "zipalign" /\ ret' # "KeyboardInterrupt") =>
        /\ ret' \in {"ok", "none"}
        /\ op = "zip_build" => (pc' = "done" /\ ret' = "ok")
        /\ op = "repack_zip" => pc' = "sign"
        /\ ZipalignExitedZero => out' = "aligned"
        /\ ~ZipalignExitedZero => out' = out]_vars

\* zipalign exited nonzero after 7z built the archive: zip_build has
\* returned success and the archive is the one 7z built.
C12_Witness ==
  /\ op = "zip_build"
  /\ pc = "done"
  /\ ret = "ok"
  /\ calls = <<Event("7z", "ok"), Event("zipalign", "nonzero")>>
  /\ out = "built"

(***************************************************************************)
(* C13.  Once zip_build has passed its precondition checks, the file that  *)
(* was at the output path before the call is gone: in every outcome, a     *)
(* file at the output path was written by this call.                       *)
(***************************************************************************)
C13_StaleOutputGone ==
  (op \in ZipOps /\ pc # "idle" /\ PassedChecks) => out # "stale"

\* 7z failed on a call that found a file at the output path: zip_build has
\* raised and no file is there.
C13_Witness ==
  /\ op = "zip_build"
  /\ pc = "done"
  /\ pre.out = "stale"
  /\ Ran("7z", "nonzero")
  /\ ret = "ApkRepkgError"
  /\ out = "absent"

(***************************************************************************)
(* C14.  main returns 0 if and only if the operation completed without     *)
(* raising; it returns 1 when no command is given, when the operation      *)
(* raises ApkRepkgError and on any other exception, and 130 on             *)
(* KeyboardInterrupt.  A failed external tool other than zipalign (a       *)
(* nonzero exit, or a missing tool that has no fallback) never leads to    *)
(* exit status 0.                                                          *)
(***************************************************************************)
ToolFailed(e) ==
  \/ e.tool # "zipalign" /\ e.result = "nonzero"
  \/ e.tool \in {"apktool", "jarsigner", "d8"} /\ e.result = "notfound"

C14_MainExitStatus ==
  /\ (cli /\ pc = "done") =>
       /\ exit_code \in {0, 1, 130}
       /\ exit_code = 0 <=> ret = "ok"
       /\ exit_code = 130 <=> ret = "KeyboardInterrupt"
       /\ op = "main" => exit_code = 1
       /\ ret = "ApkRepkgError" => exit_code = 1
       /\ (\E i \in 1..Len(calls) : ToolFailed(calls[i])) => exit_code = 1
  /\ (cli /\ pc # "done") => exit_code = -1
  /\ ~cli => exit_code = -1

\* main ran repack; apktool built the archive, apksigner was not found and
\* neither was jarsigner: FileNotFoundError, and main has returned 1.
C14_Witness ==
  /\ cli
  /\ op = "repack"
  /\ pc = "done"
  /\ calls = <<Event("apktool", "ok"), Event("apksigner", "notfound"),
               Event("jarsigner", "notfound")>>
  /\ ret = "FileNotFoundError"
  /\ exit_code = 1

====
